---- MODULE Spec2Model ----
(***************************************************************************)
(* Model of stream_gelf.go: the GELF stream core factory                   *)
(* (GelfStreamZapFactory.New), the GELF encoder configuration and the      *)
(* GELF severity encoder (lvlRelations / gelfLvlEncoder).                  *)
(*                                                                         *)
(* Strings of the program are TLA+ strings; a dotted configuration path is *)
(* a sequence of tokens in which "." is the separator, so that             *)
(* strings.Split(path, ".")[0] is computed and not assumed.  A value held  *)
(* by the configuration is a pair <<kind, text>>: <<"str", s>> is the      *)
(* string s, <<"bool", "true">> and <<"bool", "false">> are the booleans.  *)
(* An optional Go value (a core, an error) is a sequence of length 0 (nil) *)
(* or 1.                                                                   *)
(***************************************************************************)
EXTENDS Integers, Sequences, FiniteSets, TLC

VARIABLES conf, results, encoder, levels

vars == <<conf, results, encoder, levels>>

(* ------------------------------ bounds -------------------------------- *)

MaxKeys == 3

MaxEnc == 3

(* --------------------------- zapcore levels --------------------------- *)

DebugLevel == 0 - 1

InfoLevel == 0

WarnLevel == 1

ErrorLevel == 2

DPanicLevel == 3

PanicLevel == 4

FatalLevel == 5

NativeLevels == {DebugLevel, InfoLevel, WarnLevel, ErrorLevel, DPanicLevel, PanicLevel, FatalLevel}

\* the values of zapcore.Level the encoder is driven with: the seven named
\* levels and the two neighbouring values of the underlying int8
LevelInputs == (DebugLevel - 1)..(FatalLevel + 1)

(* ----------------------------- gelfLevel ------------------------------ *)

EmergencyGelfLvl == 0

AlertGelfLvl == 1

CriticalGelfLvl == 2

ErrorGelfLvl == 3

WarningGelfLvl == 4

NoticeGelfLvl == 5

InformationalGelfLvl == 6

DebugGelfLvl == 7

lvlRelationsSwapped ==
  [l \in NativeLevels |->
     CASE l = DebugLevel  -> DebugGelfLvl
       [] l = InfoLevel   -> InformationalGelfLvl
       [] l = WarnLevel   -> ErrorGelfLvl
       [] l = ErrorLevel  -> WarningGelfLvl
       [] l = DPanicLevel -> EmergencyGelfLvl
       [] l = PanicLevel  -> EmergencyGelfLvl
       [] l = FatalLevel  -> EmergencyGelfLvl]

lvlRelations ==
  [l \in NativeLevels |->
     CASE l = DebugLevel  -> DebugGelfLvl
       [] l = InfoLevel   -> InformationalGelfLvl
       [] l = WarnLevel   -> WarningGelfLvl
       [] l = ErrorLevel  -> ErrorGelfLvl
       [] l = DPanicLevel -> EmergencyGelfLvl
       [] l = PanicLevel  -> EmergencyGelfLvl
       [] l = FatalLevel  -> EmergencyGelfLvl]

\* Go map index: the zero value of gelfLevel for a key that is not in the map
MapIndex(m, k) == IF k \in DOMAIN m THEN m[k] ELSE 0

(* --------------------------- configuration ---------------------------- *)

Unset == <<"unset", "">>

Str(s) == <<"str", s>>

Bool(b) == <<"bool", IF b THEN "true" ELSE "false">>

\* the paths the factory registry calls New with
Paths == { <<"z">>, <<"z", ".", "c">> }

RECURSIVE SplitFirst(_)
\* strings.Split(path, ".")[0]: the tokens before the first separator
SplitFirst(path) ==
  IF path = <<>> \/ Head(path) = "."
    THEN <<>>
    ELSE <<Head(path)>> \o SplitFirst(Tail(path))

rootPathWhole(path) == path

rootPath(path) == SplitFirst(path)

\* prefix + "." + name
Key(prefix, name) == prefix \o <<".", name>>

VersionKey == <<"app", ".", "version">>

Names == {"development", "stacktrace", "caller", "level", "encoding"}

Keys ==
  { Key(p, n) : p \in Paths, n \in Names }
    \cup { Key(rootPath(p), n) : p \in Paths, n \in Names }
    \cup { VersionKey }

\* the last token of a key
NameOf(k) == k[Len(k)]

\* the values the model stores under a key, by the key's name
ValuesOf(n) ==
  CASE n = "development" -> { Bool(TRUE), Bool(FALSE) }
    [] n = "stacktrace"  -> { Str("false"), Str("true"), Str("TRUE"), Str("yes"),
                              Str("False"), Str("0"), Str(""), Bool(FALSE) }
    [] n = "caller"      -> { Bool(TRUE), Bool(FALSE) }
    [] n = "level"       -> { Str("debug"), Str("Error"), Str("not-a-level"), Str("") }
    [] n = "encoding"    -> { Str("json"), Str("console"), Str("xml") }
    [] n = "version"     -> { Str("1.2.3"), Str("") }

\* viper.IsSet
IsSet(c, key) == key \in DOMAIN c /\ c[key] # Unset

\* viper.GetString: cast.ToString of the stored value, "" when there is none
GetString(c, key) ==
  IF ~IsSet(c, key) THEN ""
  ELSE c[key][2]

\* viper.GetBool: cast.ToBool of the stored value; a string goes through
\* strconv.ParseBool, whose failure yields false
GetBool(c, key) ==
  IF ~IsSet(c, key) THEN FALSE
  ELSE IF c[key][1] = "bool" THEN c[key][2] = "true"
  ELSE c[key][2] \in {"1", "t", "T", "TRUE", "true", "True"}

(* ------------------------------ zap.Config ---------------------------- *)

\* zapcore.EncoderConfig of zap.NewProductionEncoderConfig: the key names and
\* the level encoder
ProductionEncoderConfig ==
  [ TimeKey |-> "ts", LevelKey |-> "level", NameKey |-> "logger",
    CallerKey |-> "caller", FunctionKey |-> "", MessageKey |-> "msg",
    StacktraceKey |-> "stacktrace", EncodeLevel |-> "LowercaseLevelEncoder" ]

\* zap.NewDevelopmentEncoderConfig
DevelopmentEncoderConfig ==
  [ TimeKey |-> "T", LevelKey |-> "L", NameKey |-> "N",
    CallerKey |-> "C", FunctionKey |-> "", MessageKey |-> "M",
    StacktraceKey |-> "S", EncodeLevel |-> "CapitalLevelEncoder" ]

\* zap.NewProductionConfig(): InitialFields is not set, so the map is nil
NewProductionConfig ==
  [ Development       |-> FALSE,
    Level             |-> InfoLevel,
    Encoding          |-> "json",
    EncoderConfig     |-> ProductionEncoderConfig,
    DisableCaller     |-> FALSE,
    DisableStacktrace |-> FALSE,
    InitialFieldsNil  |-> TRUE,
    InitialFields     |-> {} ]

\* zap.NewDevelopmentConfig(): InitialFields is not set either
NewDevelopmentConfig ==
  [ Development       |-> TRUE,
    Level             |-> DebugLevel,
    Encoding          |-> "console",
    EncoderConfig     |-> DevelopmentEncoderConfig,
    DisableCaller     |-> FALSE,
    DisableStacktrace |-> FALSE,
    InitialFieldsNil  |-> TRUE,
    InitialFields     |-> {} ]

\* zapcore.OmitKey is the empty string
getGelfEncoderConfigGeneric ==
  [ TimeKey |-> "timestamp", LevelKey |-> "level", NameKey |-> "_logger",
    CallerKey |-> "_caller", FunctionKey |-> "", MessageKey |-> "message",
    StacktraceKey |-> "full_message", EncodeLevel |-> "LowercaseLevelEncoder" ]

getGelfEncoderConfig ==
  [ TimeKey |-> "timestamp", LevelKey |-> "level", NameKey |-> "_logger",
    CallerKey |-> "_caller", FunctionKey |-> "", MessageKey |-> "short_message",
    StacktraceKey |-> "full_message", EncodeLevel |-> "LowercaseLevelEncoder" ]

\* bytes.ToLower on the level names the model stores
ToLower(s) ==
  CASE s = "Error" -> "error"
    [] s = "DEBUG" -> "debug"
    [] OTHER       -> s

\* zapcore.Level.unmarshalText: the exact names it accepts
UnmarshalText(s) ==
  CASE s \in {"debug", "DEBUG"}    -> <<DebugLevel>>
    [] s \in {"info", "INFO", ""}  -> <<InfoLevel>>
    [] s \in {"warn", "WARN"}      -> <<WarnLevel>>
    [] s \in {"error", "ERROR"}    -> <<ErrorLevel>>
    [] s \in {"dpanic", "DPANIC"}  -> <<DPanicLevel>>
    [] s \in {"panic", "PANIC"}    -> <<PanicLevel>>
    [] s \in {"fatal", "FATAL"}    -> <<FatalLevel>>
    [] OTHER                       -> <<>>

\* zap.ParseAtomicLevel: the text as written, then lower-cased; <<>> is the
\* error "unrecognized level"
ParseAtomicLevel(s) ==
  IF UnmarshalText(s) # <<>> THEN UnmarshalText(s) ELSE UnmarshalText(ToLower(s))

\* the encoders zap registers
RegisteredEncoders == {"json", "console"}

\* zap.Config.Build followed by logger.Core(): <<core>> or <<>> when no encoder
\* is registered under cfg.Encoding.  The core carries what the configuration
\* puts into it: the level, the encoder and the initial fields.  Caller and
\* stacktrace capture are options of the logger.
Build(cfg) ==
  IF cfg.Encoding \notin RegisteredEncoders THEN <<>>
  ELSE << [ Level         |-> cfg.Level,
            Encoding      |-> cfg.Encoding,
            EncoderConfig |-> cfg.EncoderConfig,
            Fields        |-> cfg.InitialFields ] >>

(* --------------------- GelfStreamZapFactory.New ----------------------- *)

Name == "gelf_stream"

selectProfileIfSet(c, path) ==
  IF IsSet(c, Key(rootPath(path), "development"))
    THEN NewDevelopmentConfig
    ELSE NewProductionConfig

\* the profile New starts from
selectProfile(c, path) ==
  IF IsSet(c, Key(rootPath(path), "development"))
       /\ GetBool(c, Key(rootPath(path), "development"))
    THEN NewDevelopmentConfig
    ELSE NewProductionConfig

\* the encoding, the GELF encoder configuration and the GELF level encoder
setEncoding(c, path, lc) ==
  [ lc EXCEPT
      !.Encoding      = IF IsSet(c, Key(path, "encoding"))
                          THEN GetString(c, Key(path, "encoding"))
                          ELSE "json",
      !.EncoderConfig = [ getGelfEncoderConfig EXCEPT !.EncodeLevel = "gelfLvlEncoder" ] ]

setStacktraceParsed(c, path, lc) ==
  IF IsSet(c, Key(rootPath(path), "stacktrace"))
    THEN [ lc EXCEPT !.DisableStacktrace = ~GetBool(c, Key(rootPath(path), "stacktrace")) ]
    ELSE lc

setStacktrace(c, path, lc) ==
  IF IsSet(c, Key(rootPath(path), "stacktrace"))
    THEN [ lc EXCEPT !.DisableStacktrace = (GetString(c, Key(rootPath(path), "stacktrace")) = "false") ]
    ELSE lc

setCallerInverted(c, path, lc) ==
  IF IsSet(c, Key(rootPath(path), "caller"))
    THEN [ lc EXCEPT !.DisableCaller = GetBool(c, Key(rootPath(path), "caller")) ]
    ELSE lc

setCallerAlways(c, path, lc) ==
  [ lc EXCEPT !.DisableCaller = ~GetBool(c, Key(rootPath(path), "caller")) ]

setCaller(c, path, lc) ==
  IF IsSet(c, Key(rootPath(path), "caller"))
    THEN [ lc EXCEPT !.DisableCaller = ~GetBool(c, Key(rootPath(path), "caller")) ]
    ELSE lc

\* the configuration New has assembled when it reaches the level key
beforeLevel(c, path) ==
  setCaller(c, path, setStacktrace(c, path, setEncoding(c, path, selectProfile(c, path))))

\* errors.Wrap(cause, msg) with the value the message names
WrapError(msg, value, cause) == << [ msg |-> msg, value |-> value, cause |-> cause ] >>

\* what a call of New leaves behind: how it ended ("ok" and "error" are the two
\* returns, "panic" is the run-time panic of a write to a nil map), the two
\* returned values, the configuration assembled so far, and whether
\* loggerConf.Build was called
Outcome(status, core, err, lc, built) ==
  [ status |-> status, core |-> core, err |-> err, loggerConf |-> lc, built |-> built ]

\* the build step and the two returns after it
buildCore(lc) ==
  IF Build(lc) = <<>>
    THEN Outcome("error", <<>>,
                 WrapError("failed to build logger", "", "no encoder registered"), lc, TRUE)
    ELSE Outcome("ok", Build(lc), <<>>, lc, TRUE)

\* the version field: an assignment to an entry of loggerConf.InitialFields
setVersion(c, lc) ==
  IF ~IsSet(c, VersionKey) THEN buildCore(lc)
  ELSE IF lc.InitialFieldsNil THEN Outcome("panic", <<>>, <<>>, lc, FALSE)
  ELSE buildCore([ lc EXCEPT !.InitialFields =
                      { f \in @ : f[1] # "version" } \cup { <<"version", GetString(c, VersionKey)>> } ])

\* New(conf, path), from its first statement to its return or panic
NewOutcome(c, path) ==
  LET lc  == beforeLevel(c, path)
      key == Key(path, "level")
      lvl == ParseAtomicLevel(GetString(c, key))
  IN  IF IsSet(c, key) /\ lvl = <<>>
        THEN Outcome("error", <<>>,
                     WrapError("cannot parse log level", GetString(c, key), "unrecognized level"),
                     lc, FALSE)
        ELSE setVersion(c, IF IsSet(c, key) THEN [ lc EXCEPT !.Level = lvl[1] ] ELSE lc)

(* ------------------------------ actions -------------------------------- *)

Init ==
  /\ conf = [ k \in Keys |-> Unset ]
  /\ results = [ p \in Paths |-> <<>> ]
  /\ encoder = <<>>
  /\ levels = <<>>

\* the configuration is loaded, one key at a time, before the registry builds
\* the cores
Set(k, v) ==
  /\ \A p \in Paths : results[p] = <<>>
  /\ conf[k] = Unset
  /\ Cardinality({ j \in Keys : conf[j] # Unset }) < MaxKeys
  /\ conf' = [ conf EXCEPT ![k] = v ]
  /\ UNCHANGED <<results, encoder, levels>>

\* the registry calls New(conf, path)
New(path) ==
  /\ results[path] = <<>>
  /\ results' = [ results EXCEPT ![path] = << NewOutcome(conf, path) >> ]
  /\ UNCHANGED <<conf, encoder, levels>>

\* gelfLvlEncoder(level, encoder): encoder.AppendInt(int(lvlRelations[level]))
gelfLvlEncoder(level) ==
  /\ Len(encoder) < MaxEnc
  /\ encoder' = Append(encoder, MapIndex(lvlRelations, level))
  /\ levels' = Append(levels, level)
  /\ UNCHANGED <<conf, results>>

Next ==
  \/ \E k \in Keys : \E v \in ValuesOf(NameOf(k)) : Set(k, v)
  \/ \E p \in Paths : New(p)

Spec == Init /\ [][Next]_vars

NextEncoder == \E l \in LevelInputs : gelfLvlEncoder(l)

SpecEncoder == Init /\ [][NextEncoder]_vars

(* ------------------------------ properties ----------------------------- *)

\* the calls of New made so far
Called == { p \in Paths : results[p] # <<>> }

\* the outcome of the call New(conf, p), for p in Called
Res(p) == results[p][1]

\* C1: for each of the seven native levels the encoder appends exactly one
\* integer, the one of the fixed table debug->7, info->6, warn->4, error->3,
\* dpanic->0, panic->0, fatal->0, so each appended code lies in 0..7.
C1_SeverityTable ==
  /\ Len(encoder) = Len(levels)
  /\ \A i \in 1..Len(levels) :
       /\ encoder[i] \in 0..7
       /\ (levels[i] = 0 - 1) => encoder[i] = 7
       /\ (levels[i] = 0) => encoder[i] = 6
       /\ (levels[i] = 1) => encoder[i] = 4
       /\ (levels[i] = 2) => encoder[i] = 3
       /\ (levels[i] \in {3, 4, 5}) => encoder[i] = 0

C1_Witness == levels = <<0 - 1, 1, 5>> /\ encoder = <<7, 4, 0>>

\* C8: the code 0 is appended only for dpanic, panic and fatal; a level that is
\* not a key of the table is not silently encoded as 0.
C8_ZeroOnlyForPanicLevels ==
  \A i \in 1..Len(levels) :
    (i <= Len(encoder) /\ encoder[i] = 0) => levels[i] \in {3, 4, 5}

\* C2: when <root>.stacktrace is present, stacktrace capture is disabled iff its
\* string value is exactly "false"; "true", "TRUE", "yes", "False", "0" and ""
\* enable it; when the key is absent the profile's setting is unchanged.
C2_StacktraceStringRule ==
  \A p \in Called :
    LET k  == Key(rootPath(p), "stacktrace")
        lc == Res(p).loggerConf
    IN  /\ IsSet(conf, k) =>
             /\ lc.DisableStacktrace <=> (GetString(conf, k) = "false")
             /\ conf[k] \in { Str("true"), Str("TRUE"), Str("yes"), Str("False"), Str("0"), Str("") }
                  => ~lc.DisableStacktrace
        /\ ~IsSet(conf, k) =>
             lc.DisableStacktrace =
               (IF lc.Development THEN NewDevelopmentConfig ELSE NewProductionConfig).DisableStacktrace

C2_Witness ==
  \E p \in Called :
    /\ conf[Key(rootPath(p), "stacktrace")] = Str("yes")
    /\ ~Res(p).loggerConf.DisableStacktrace
    /\ Res(p).status = "ok"

\* C7: when <root>.caller is present, caller capture is enabled iff its boolean
\* value is true; when the key is absent the profile's caller setting is
\* untouched.
C7_CallerRule ==
  \A p \in Called :
    LET k  == Key(rootPath(p), "caller")
        lc == Res(p).loggerConf
    IN  /\ IsSet(conf, k) => (~lc.DisableCaller <=> (conf[k] \in { Bool(TRUE), Str("true") }))
        /\ ~IsSet(conf, k) =>
             lc.DisableCaller =
               (IF lc.Development THEN NewDevelopmentConfig ELSE NewProductionConfig).DisableCaller

C7_Witness ==
  \E p \in Called :
    /\ conf[Key(rootPath(p), "caller")] = Bool(FALSE)
    /\ Res(p).loggerConf.DisableCaller
    /\ Res(p).status = "ok"

\* C9: New starts from the development profile iff <root>.development is
\* present and true, from the production profile otherwise; the minimum level,
\* the stacktrace policy and the caller policy keep the profile's value unless
\* their key is present.
C9_ProfileSelection ==
  \A p \in Called :
    LET r   == rootPath(p)
        lc  == Res(p).loggerConf
        dev == conf[Key(r, "development")] = Bool(TRUE)
    IN  /\ lc.Development <=> dev
        /\ ~IsSet(conf, Key(p, "level")) => lc.Level = (IF dev THEN 0 - 1 ELSE 0)
        /\ ~IsSet(conf, Key(r, "stacktrace")) => ~lc.DisableStacktrace
        /\ ~IsSet(conf, Key(r, "caller")) => ~lc.DisableCaller

C9_Witness ==
  \E p \in Called :
    /\ conf[Key(rootPath(p), "development")] = Bool(TRUE)
    /\ \A k \in Keys : NameOf(k) # "development" => conf[k] = Unset
    /\ Res(p).status = "ok"
    /\ Res(p).core[1].Level = DebugLevel

\* the GELF field-name table with the GELF severity encoder
GelfTable ==
  [ TimeKey |-> "timestamp", LevelKey |-> "level", NameKey |-> "_logger",
    CallerKey |-> "_caller", FunctionKey |-> "", MessageKey |-> "short_message",
    StacktraceKey |-> "full_message", EncodeLevel |-> "gelfLvlEncoder" ]

\* C6: whenever New succeeds the core's field-name table is the GELF table and
\* its level encoder the GELF severity encoder, under either profile and any
\* encoding; the encoding is "json" when <path>.encoding is absent and the
\* configured string when present.
C6_GelfTableAndEncoding ==
  \A p \in Called :
    Res(p).status = "ok" =>
      /\ Res(p).core[1].EncoderConfig = GelfTable
      /\ Res(p).core[1].Encoding =
           (IF IsSet(conf, Key(p, "encoding")) THEN conf[Key(p, "encoding")][2] ELSE "json")

C6_Witness ==
  \E p \in Called :
    /\ conf[Key(rootPath(p), "development")] = Bool(TRUE)
    /\ conf[Key(p, "encoding")] = Str("console")
    /\ Res(p).status = "ok"
    /\ Res(p).core[1].Encoding = "console"
    /\ Res(p).core[1].EncoderConfig.MessageKey = "short_message"

\* C4: whenever app.version is present New completes normally and the core it
\* returns carries the field version with the configured string; when the key
\* is absent no version field is added.
C4_VersionField ==
  \A p \in Called :
    /\ IsSet(conf, VersionKey) =>
         /\ Res(p).status # "panic"
         /\ Res(p).status = "ok" => <<"version", conf[VersionKey][2]>> \in Res(p).core[1].Fields
    /\ ~IsSet(conf, VersionKey) =>
         (Res(p).status = "ok" => \A f \in Res(p).core[1].Fields : f[1] # "version")

\* C3: a present <path>.level that does not parse gives an error naming the
\* value, a nil core and no build attempt; one that parses is the minimum level
\* of the returned core; in every outcome exactly one of core and error is
\* non-nil.
C3_LevelAndExclusiveOutcome ==
  \A p \in Called :
    LET k   == Key(p, "level")
        lvl == ParseAtomicLevel(GetString(conf, k))
    IN  /\ (IsSet(conf, k) /\ lvl = <<>>) =>
             /\ Res(p).core = <<>>
             /\ Res(p).err # <<>>
             /\ Res(p).err[1].value = conf[k][2]
             /\ ~Res(p).built
        /\ (IsSet(conf, k) /\ lvl # <<>> /\ Res(p).core # <<>>) =>
             Res(p).core[1].Level = lvl[1]
        /\ (Res(p).core = <<>>) # (Res(p).err = <<>>)

\* the profile the call New(conf, p) selected, for p in Called
ProfileOf(p) ==
  IF Res(p).loggerConf.Development THEN NewDevelopmentConfig ELSE NewProductionConfig

\* the configuration with key k absent
Without(c, k) == [ c EXCEPT ![k] = Unset ]

\* New returns an error only when <path>.level is present and does not parse
\* or when the build fails; no absent key makes New fail
FailsOnlyOnPresentKeys(p) ==
  LET k == Key(p, "level")
  IN  /\ Res(p).status = "error" =>
           \/ IsSet(conf, k) /\ ParseAtomicLevel(GetString(conf, k)) = <<>> /\ ~Res(p).built
           \/ Res(p).built /\ Res(p).loggerConf.Encoding \notin {"json", "console"}
      /\ (\A j \in Keys : conf[j] = Unset) => Res(p).status = "ok"
      /\ \A j \in Keys :
           NewOutcome(Without(conf, j), p).status # "ok" => Res(p).status # "ok"

\* a setting whose key is absent keeps the value of the selected profile
\* (the encoding is stated apart)
AbsentKeepsProfile(p) ==
  LET r  == rootPath(p)
      lc == Res(p).loggerConf
  IN  /\ ~IsSet(conf, Key(r, "development")) => ~lc.Development
      /\ ~IsSet(conf, Key(r, "stacktrace")) => lc.DisableStacktrace = ProfileOf(p).DisableStacktrace
      /\ ~IsSet(conf, Key(r, "caller")) => lc.DisableCaller = ProfileOf(p).DisableCaller
      /\ ~IsSet(conf, Key(p, "level")) => lc.Level = ProfileOf(p).Level
      /\ ~IsSet(conf, VersionKey) => lc.InitialFields = ProfileOf(p).InitialFields

\* C5 as stated: New returns an error only for an unparsable present level or a
\* failed build, no absent key makes New fail, and every setting whose key is
\* absent, the encoding included, keeps the value of the selected profile.
C5_AbsentKeysKeepProfile ==
  \A p \in Called :
    /\ FailsOnlyOnPresentKeys(p)
    /\ AbsentKeepsProfile(p)
    /\ ~IsSet(conf, Key(p, "encoding")) => Res(p).loggerConf.Encoding = ProfileOf(p).Encoding

\* C5 amended: as above, except that with <path>.encoding absent the encoding
\* is "json" under either profile (the development profile's is "console").
C5_AbsentKeysKeepProfileJson ==
  \A p \in Called :
    /\ FailsOnlyOnPresentKeys(p)
    /\ AbsentKeepsProfile(p)
    /\ ~IsSet(conf, Key(p, "encoding")) => Res(p).loggerConf.Encoding = "json"

C5_Witness ==
  \E p \in Called :
    /\ conf[Key(rootPath(p), "development")] = Bool(TRUE)
    /\ \A k \in Keys : NameOf(k) # "development" => conf[k] = Unset
    /\ Res(p).status = "ok"
    /\ Res(p).core[1].Encoding = "json"
    /\ ~Res(p).loggerConf.DisableCaller

\* whether the path has a separator
HasDot(p) == \E i \in 1..Len(p) : p[i] = "."

\* R: the segment of the path before its first separator
RootSegment(p) ==
  IF HasDot(p)
    THEN SubSeq(p, 1, (CHOOSE i \in 1..Len(p) : p[i] = "." /\ \A j \in 1..(i - 1) : p[j] # ".") - 1)
    ELSE p

\* the keys New(conf, p) is to read
KeysRead(p) ==
  { Key(RootSegment(p), "development"), Key(RootSegment(p), "stacktrace"),
    Key(RootSegment(p), "caller"), Key(p, "level"), Key(p, "encoding"), VersionKey }

\* C10: development, stacktrace and caller are read only from R.development,
\* R.stacktrace and R.caller, level and encoding only from <path>.level and
\* <path>.encoding: the value of any other key, <path>.development,
\* <path>.stacktrace, <path>.caller, R.level and R.encoding of a dotted path
\* among them, has no effect on the outcome, and two calls whose paths share R
\* get the same development, stacktrace and caller settings.
C10_KeyScoping ==
  /\ \A p \in Called :
       /\ Res(p).loggerConf.Development <=> GetBool(conf, Key(RootSegment(p), "development"))
       /\ \A k \in Keys \ KeysRead(p) :
            \A v \in ValuesOf(NameOf(k)) \cup {Unset} :
              NewOutcome([ conf EXCEPT ![k] = v ], p) = Res(p)
  /\ \A p \in Called : \A q \in Called :
       RootSegment(p) = RootSegment(q) =>
         /\ Res(p).loggerConf.Development = Res(q).loggerConf.Development
         /\ Res(p).loggerConf.DisableStacktrace = Res(q).loggerConf.DisableStacktrace
         /\ Res(p).loggerConf.DisableCaller = Res(q).loggerConf.DisableCaller

C10_Witness ==
  /\ Called = Paths
  /\ conf[Key(<<"z", ".", "c">>, "development")] = Bool(TRUE)
  /\ conf[Key(<<"z">>, "level")] = Str("not-a-level")
  /\ conf[Key(<<"z">>, "caller")] = Bool(FALSE)
  /\ Res(<<"z", ".", "c">>).status = "ok"
  /\ ~Res(<<"z", ".", "c">>).loggerConf.Development
  /\ Res(<<"z", ".", "c">>).loggerConf.DisableCaller
  /\ Res(<<"z">>).status = "error"
  /\ Res(<<"z">>).loggerConf.DisableCaller

====
